---- MODULE Spec2Model ----
(***************************************************************************)
(* Model of the MFT parser (crate mft): the block index held by Parser,    *)
(* the path resolver (get_best_path_part, get_file_path,                   *)
(* fill_path_parts_cache) and the record iterator (Record::from,           *)
(* Iterator::next).                                                        *)
(*                                                                         *)
(* A block of the index is the sequence of its SectionPointers.  The model *)
(* keeps, beside each pointer, what the decoders read at the pointer's     *)
(* offset (the FileName fields, the AttributeList items), because the file *)
(* under the reader never changes after construction.                      *)
(*                                                                         *)
(* A path is the sequence its '/'-join spells: the components with the     *)
(* separator "/" between them.  A regex is modelled by the one component   *)
(* it matches: it matches a path holding that component, or a file name    *)
(* equal to it.                                                            *)
(*                                                                         *)
(* The loop of get_file_path is modelled one iteration per step (pc =      *)
(* "walk"), so that a walk that never ends is a behaviour of the model;    *)
(* the loop of Iterator::next is modelled one block per step (pc = "next").*)
(* The parser is single-threaded: a call starts only when pc = "idle".     *)
(***************************************************************************)
EXTENDS Integers, Sequences, FiniteSets, TLC

VARIABLES blocks, records, size, settings, path_parts, pc, caller, entry_arg,
          current_id, parts, visited, next_entry_id, evaluated, emitted,
          errored, last,
          calc,
          mft_file, reader, prev_entry, this_entry, entry_buffer, attr_offset,
          block_list, record_n, build_pc,
          decoded, overflow_checks

\* The parser, its iterator and the locals of the call that runs.
parser_vars == <<blocks, records, size, settings, path_parts, pc, caller,
                 entry_arg, current_id, parts, visited, next_entry_id,
                 evaluated, emitted, errored, last>>
\* The call of a free-standing function (FileReference::from,
\* convert_u64_to_datetime, the is_deleted test) and what it returned.
pure_vars == <<calc>>
\* The index build of Parser::with_settings: the MFT file and the reader
\* over it, the locals of get_blocks (prev as prev_entry, blocks as
\* block_list, record_n), the locals of Entry::from_reader (the entry it
\* builds as this_entry, buffer as entry_buffer, offset as attr_offset), the
\* position in the build, what the last decode of a record read, and
\* whether the crate was built with overflow checks (a debug build) or
\* with wrapping integer arithmetic (a release build).
build_vars == <<mft_file, reader, prev_entry, this_entry, entry_buffer,
                attr_offset, block_list, record_n, build_pc, decoded,
                overflow_checks>>

vars == <<blocks, records, size, settings, path_parts, pc, caller, entry_arg,
          current_id, parts, visited, next_entry_id, evaluated, emitted,
          errored, last,
          calc,
          mft_file, reader, prev_entry, this_entry, entry_buffer, attr_offset,
          block_list, record_n, build_pc,
          decoded, overflow_checks>>

(***************************************************************************)
(* Bounds of the model.                                                    *)
(***************************************************************************)
\* lib.rs:25
MFT_RECORD_SIZE == 1024
\* Number of records of the MFT file (Parser.records, blocks.len()).
NumRecords == 3
\* Names one walk of get_file_path may push before the model stops
\* following it (the loop itself has no bound).
MaxWalk == 4
\* Nesting of recurse_attributes the model follows before it reports the
\* stack as exhausted (the recursion itself has no bound).
MaxDepth == 3

(***************************************************************************)
(* Program constants.                                                      *)
(***************************************************************************)
\* lib.rs:113, the reserved reference of the root directory.
ROOT_ENTRY == 5
\* lib.rs:189, the name space of a pure DOS 8.3 name.
DOS_NAME_SPACE == 2

EntryIds == 0 .. (NumRecords - 1)
\* An entry id that has no block in the index.
DanglingId == NumRecords
\* Parent references a FileName may hold.
ParentRefs == (EntryIds \cup {0, ROOT_ENTRY, DanglingId})

\* Option values: None, Some(v); Absent is a key the HashMap does not hold.
None == [tag |-> "none"]
Absent == [tag |-> "absent"]
Some(v) == [tag |-> "some", value |-> v]

LongNames == <<"a", "b", "c", "d", "e">>
DosNames == <<"A~1", "B~1", "C~1", "D~1", "E~1">>
LongNameOf(i) == LongNames[i + 1]
DosNameOf(i) == DosNames[i + 1]

(***************************************************************************)
(* Section pointers (block.rs) with the decoded content at their offset.   *)
(***************************************************************************)
EntryPointer ==
    [block_type |-> "Entry", attribute_id |-> None]
StandardInformationPointer(id) ==
    [block_type |-> "StandardInformation", attribute_id |-> Some(id)]
\* decodes = FALSE: the bytes at the pointer end before the FileName does, so
\* FileName::from_reader fails with ValueRead.
FileNamePointer(id, name, parent, ns, decodes) ==
    [block_type |-> "FileName", attribute_id |-> Some(id),
     name |-> name, parent |-> parent, name_space |-> ns, decodes |-> decodes]
AttributeListPointer(id, items) ==
    [block_type |-> "AttributeList", attribute_id |-> Some(id), items |-> items]
AttributeListItem(entry, id) ==
    [entry |-> entry, attribute_id |-> Some(id)]

(***************************************************************************)
(* Sequence helpers.                                                       *)
(***************************************************************************)
Reverse(s) == [i \in 1 .. Len(s) |-> s[Len(s) + 1 - i]]

RECURSIVE Join(_)
\* join("/"): the components with the separator between them.
Join(s) ==
    IF Len(s) <= 1 THEN s ELSE <<s[1], "/">> \o Join(Tail(s))

\* Index of the first pointer of a block with the given attribute id, or
\* with the given block type; 0 when there is none (iter().find()).
FindAttributeId(block, attribute_id) ==
    IF \E i \in 1 .. Len(block) : block[i].attribute_id = attribute_id
    THEN CHOOSE i \in 1 .. Len(block) :
             /\ block[i].attribute_id = attribute_id
             /\ \A j \in 1 .. (i - 1) : block[j].attribute_id # attribute_id
    ELSE 0
FindBlockType(block, block_type) ==
    IF \E i \in 1 .. Len(block) : block[i].block_type = block_type
    THEN CHOOSE i \in 1 .. Len(block) :
             /\ block[i].block_type = block_type
             /\ \A j \in 1 .. (i - 1) : block[j].block_type # block_type
    ELSE 0

(***************************************************************************)
(* get_best_path_part (lib.rs:150-237).                                    *)
(***************************************************************************)
OkFileName(block) ==
    [status |-> "Ok", name |-> block.name, parent |-> block.parent,
     name_space |-> block.name_space]
Failure(kind) == [status |-> kind]

IsPathBlock(b) ==
    b.block_type = "FileName" \/ b.block_type = "AttributeList"

\* The filter of lib.rs:166-179.
AttributeBlocks(block, target_attribute) ==
    SelectSeq(block,
              LAMBDA b : IF target_attribute.tag = "some"
                         THEN b.attribute_id = target_attribute.value.attribute_id
                              /\ IsPathBlock(b)
                         ELSE IsPathBlock(b))

\* Variant: the name space is not looked at.
AcceptsEveryNameSpace(name_space) == TRUE
\* lib.rs:189: a FileName is taken unless its name space is pure DOS.
IsAcceptedNameSpace(name_space) == name_space # DOS_NAME_SPACE

RECURSIVE ResolveToBlocks(_, _)
\* AttributeList::resolve_to_blocks: for every item whose record is in the
\* index and holds a pointer with the item's attribute id, the pair of the
\* record's entry id and that pointer.
ResolveToBlocks(items, blks) ==
    IF items = <<>> THEN <<>>
    ELSE LET item == Head(items)
             rest == ResolveToBlocks(Tail(items), blks)
         IN  IF item.entry \in DOMAIN blks
             THEN LET k == FindAttributeId(blks[item.entry], item.attribute_id)
                  IN  IF k = 0 THEN rest
                      ELSE <<[entry |-> item.entry,
                              pointer |-> blks[item.entry][k]]>> \o rest
             ELSE rest

RECURSIVE RecurseAttributes(_, _, _, _)
RECURSIVE ScanAttributeBlocks(_, _, _, _, _)
RECURSIVE ScanResolved(_, _, _, _)

\* The inner for loop of lib.rs:195-220 from the i-th resolved pair on.
\* "Exhausted": no pair gave a FileName.
ScanResolved(blks, resolved, i, depth) ==
    IF i > Len(resolved) THEN Failure("Exhausted")
    ELSE IF resolved[i].entry \notin DOMAIN blks THEN Failure("MissingBlock")
    ELSE LET r == RecurseAttributes(blks, resolved[i].entry,
                                    Some(resolved[i].pointer), depth + 1)
         IN  IF r.status = "Ok" \/ r.status = "StackOverflow" THEN r
             ELSE ScanResolved(blks, resolved, i + 1, depth)

\* The 'outer loop of lib.rs:182-224 from the i-th attribute block on.
ScanAttributeBlocks(blks, target, attribute_blocks, i, depth) ==
    IF i > Len(attribute_blocks) THEN Failure("MissingFileNameAttribute")
    ELSE LET block == attribute_blocks[i] IN
         IF block.block_type = "FileName"
         THEN IF ~block.decodes THEN Failure("ValueRead")
              ELSE IF IsAcceptedNameSpace(block.name_space) THEN OkFileName(block)
              ELSE ScanAttributeBlocks(blks, target, attribute_blocks, i + 1, depth)
         ELSE LET r == ScanResolved(blks, ResolveToBlocks(block.items, blks), 1, depth)
              IN  IF r.status = "Exhausted"
                  THEN ScanAttributeBlocks(blks, target, attribute_blocks, i + 1, depth)
                  ELSE r

\* recurse_attributes; past MaxDepth nested calls the stack is reported
\* exhausted (the process aborts).
RecurseAttributes(blks, target, target_attribute, depth) ==
    IF depth > MaxDepth THEN Failure("StackOverflow")
    ELSE IF FindBlockType(blks[target], "Entry") = 0
    THEN Failure("MissingBlock")
    ELSE ScanAttributeBlocks(blks, target,
                             AttributeBlocks(blks[target], target_attribute),
                             1, depth)

GetBestPathPart(blks, entry_id) ==
    IF entry_id \notin DOMAIN blks THEN Failure("MissingBlock")
    ELSE RecurseAttributes(blks, entry_id, None, 0)

(***************************************************************************)
(* Record images: what the index build leaves in a block for a record of   *)
(* entry id i whose FileName attributes name parent p.                     *)
(***************************************************************************)
\* The record an AttributeList item of record i points to.
ExtensionOf(i) == (i + 1) % NumRecords

RecordKinds ==
    {"Plain", "DosFirst", "DosSecond", "DosOnly", "Empty", "NoStandardInfo",
     "Truncated", "ListBase", "ListOther", "ListSelf"}

RecordImage(kind, i, p) ==
    CASE kind = "Plain" ->
           <<EntryPointer, StandardInformationPointer(0),
             FileNamePointer(1, LongNameOf(i), p, 1, TRUE)>>
      [] kind = "DosFirst" ->
           <<EntryPointer, StandardInformationPointer(0),
             FileNamePointer(1, DosNameOf(i), p, 2, TRUE),
             FileNamePointer(2, LongNameOf(i), p, 1, TRUE)>>
      [] kind = "DosSecond" ->
           <<EntryPointer, StandardInformationPointer(0),
             FileNamePointer(1, LongNameOf(i), p, 0, TRUE),
             FileNamePointer(2, DosNameOf(i), p, 2, TRUE)>>
      [] kind = "DosOnly" ->
           <<EntryPointer, StandardInformationPointer(0),
             FileNamePointer(1, DosNameOf(i), p, 2, TRUE)>>
      \* a zeroed header: no attributes
      [] kind = "Empty" ->
           <<EntryPointer>>
      [] kind = "NoStandardInfo" ->
           <<EntryPointer, FileNamePointer(1, LongNameOf(i), p, 1, TRUE)>>
      [] kind = "Truncated" ->
           <<EntryPointer, StandardInformationPointer(0),
             FileNamePointer(1, LongNameOf(i), p, 1, FALSE)>>
      \* an AttributeList that lists the record's own attributes
      [] kind = "ListBase" ->
           <<EntryPointer, StandardInformationPointer(0),
             AttributeListPointer(1, <<AttributeListItem(i, 0),
                                       AttributeListItem(i, 2),
                                       AttributeListItem(i, 3)>>),
             FileNamePointer(2, DosNameOf(i), p, 2, TRUE),
             FileNamePointer(3, LongNameOf(i), p, 3, TRUE)>>
      \* an AttributeList that points to the FileName of another record
      [] kind = "ListOther" ->
           <<EntryPointer, StandardInformationPointer(0),
             AttributeListPointer(1, <<AttributeListItem(ExtensionOf(i), 1)>>),
             FileNamePointer(2, DosNameOf(i), p, 2, TRUE),
             FileNamePointer(3, LongNameOf(i), p, 1, TRUE)>>
      \* an AttributeList that lists itself
      [] kind = "ListSelf" ->
           <<EntryPointer, StandardInformationPointer(0),
             AttributeListPointer(1, <<AttributeListItem(i, 1)>>),
             FileNamePointer(2, LongNameOf(i), p, 1, TRUE)>>

\* ParserSettings (lib.rs:240-245): the default ones, a drive letter with a
\* path exclusion, and a drive letter with both exclusions.
DefaultSettings ==
    [drive_char |-> None, path_exclusion_regex |-> None,
     filename_exclusion_regex |-> None]
SettingsChoices ==
    <<[drive_char |-> Some("C"), path_exclusion_regex |-> Some("b"),
       filename_exclusion_regex |-> None],
      [drive_char |-> Some("C"), path_exclusion_regex |-> Some("b"),
       filename_exclusion_regex |-> Some("a")]>>

\* The parsers of the model.  The regular parser has default settings and
\* an MFT of plain records that all lie in the root directory.  A parser of
\* the model differs from it by at most two irregularities (a record of
\* another kind, a FileName with another parent reference, other settings),
\* at most one of them a record of another kind.
Regular ==
    [what |-> "none", entry |-> 0, kind |-> "Plain", parent |-> ROOT_ENTRY,
     choice |-> 0]
Irregularities ==
    {Regular}
    \cup { [Regular EXCEPT !.what = "kind", !.entry = i, !.kind = k] :
             i \in EntryIds, k \in RecordKinds \ {"Plain"} }
    \cup { [Regular EXCEPT !.what = "parent", !.entry = i, !.parent = p] :
             i \in EntryIds, p \in ParentRefs \ {ROOT_ENTRY} }
    \cup { [Regular EXCEPT !.what = "settings", !.choice = n] :
             n \in DOMAIN SettingsChoices }

KindIn(d1, d2, i) ==
    IF d2.what = "kind" /\ d2.entry = i THEN d2.kind
    ELSE IF d1.what = "kind" /\ d1.entry = i THEN d1.kind
    ELSE "Plain"
ParentIn(d1, d2, i) ==
    IF d2.what = "parent" /\ d2.entry = i THEN d2.parent
    ELSE IF d1.what = "parent" /\ d1.entry = i THEN d1.parent
    ELSE ROOT_ENTRY
MftImage(d1, d2) ==
    [i \in EntryIds |-> RecordImage(KindIn(d1, d2, i), i, ParentIn(d1, d2, i))]
SettingsIn(d1, d2) ==
    IF d2.what = "settings" THEN SettingsChoices[d2.choice]
    ELSE IF d1.what = "settings" THEN SettingsChoices[d1.choice]
    ELSE DefaultSettings

(***************************************************************************)
(* get_file_path (lib.rs:106-148).                                         *)
(***************************************************************************)
CacheGet(cache, id) == IF id \in DOMAIN cache THEN cache[id] ELSE Absent

\* format!("{}:", drive)
DriveLabel(drive) == IF drive = "C" THEN "C:" ELSE "D:"

\* lib.rs:115-119
RootPart(s) ==
    IF s.drive_char.tag = "some" THEN DriveLabel(s.drive_char.value)
    ELSE "{Root}"

\* Variant: parent 0 is not taken for an orphan.
IsOrphanSelfOnly(current, parent_id) == current = parent_id
\* lib.rs:124
IsOrphan(current, parent_id) == current = parent_id \/ parent_id = 0

\* Variant: the parent reference is not kept.
WalkCacheEntryWithoutParent(f) == Some([name |-> f.name, parent |-> 0])
\* lib.rs:133-136
WalkCacheEntry(f) == Some([name |-> f.name, parent |-> f.parent])

\* Variant: the parts are joined in the order the walk pushed them.
PathOfUnreversed(ps) == Join(ps)
\* lib.rs:145-147
PathOf(ps) == Join(Reverse(ps))

\* lib.rs:138-140: a walk that meets a record with no acceptable FileName
\* leaves the loop.
\* Variant: the error is returned to the caller.
OnMissingFileNameError == "error"
OnMissingFileName == "break"

\* One iteration of the loop of lib.rs:110-144.  next: "loop", "break",
\* "error" (return Err) or "abort" (the stack is exhausted); took: the
\* iteration pushed the name of current.
WalkIteration(blks, s, cache, current, ps) ==
    LET c == CacheGet(cache, current) IN
    IF c.tag = "some" /\ c.value.parent = ROOT_ENTRY
    THEN [next |-> "break", cache |-> cache, current_id |-> current,
          parts |-> ps \o <<c.value.name, RootPart(s)>>, took |-> TRUE,
          error |-> "none"]
    ELSE IF c.tag = "some"
    THEN IF IsOrphan(current, c.value.parent)
         THEN [next |-> "break", cache |-> cache, current_id |-> current,
               parts |-> ps \o <<c.value.name, "{Orphaned}">>, took |-> TRUE,
               error |-> "none"]
         ELSE [next |-> "loop", cache |-> cache, current_id |-> c.value.parent,
               parts |-> Append(ps, c.value.name), took |-> TRUE,
               error |-> "none"]
    ELSE LET f == GetBestPathPart(blks, current) IN
         IF f.status = "Ok"
         THEN [next |-> "loop", cache |-> [cache EXCEPT ![current] = WalkCacheEntry(f)],
               current_id |-> current, parts |-> ps, took |-> FALSE,
               error |-> "none"]
         ELSE [next |-> IF f.status = "MissingFileNameAttribute"
                        THEN OnMissingFileName
                        ELSE IF f.status = "StackOverflow" THEN "abort"
                        ELSE "error",
               cache |-> cache, current_id |-> current, parts |-> ps,
               took |-> FALSE, error |-> f.status]

(***************************************************************************)
(* fill_path_parts_cache (lib.rs:88-104).                                  *)
(***************************************************************************)
\* lib.rs:92-100
\* Variant: a record with no FileName is cached with an empty name.
FillCacheEntryOrDefault(f) ==
    IF f.status = "Ok" THEN Some([name |-> f.name, parent |-> f.parent])
    ELSE Some([name |-> "", parent |-> 0])
FillCacheEntry(f) ==
    IF f.status = "Ok" THEN Some([name |-> f.name, parent |-> f.parent])
    ELSE None

RECURSIVE FillFrom(_, _, _)
\* The loop of lib.rs:89-102 from block i on.
FillFrom(blks, cache, i) ==
    IF i \notin DOMAIN blks THEN [cache |-> cache, status |-> "Ok"]
    ELSE LET f == GetBestPathPart(blks, i) IN
         IF f.status = "Ok" \/ f.status = "MissingFileNameAttribute"
         THEN FillFrom(blks, [cache EXCEPT ![i] = FillCacheEntry(f)], i + 1)
         ELSE IF f.status = "StackOverflow"
         THEN [cache |-> cache, status |-> "Abort"]
         ELSE [cache |-> cache, status |-> "Err"]

(***************************************************************************)
(* Record::from and the filter of Iterator::next (iter.rs).                *)
(***************************************************************************)
\* Path::file_name: the last component, None for the empty path.
FileNameOf(path) ==
    IF path = <<>> THEN None ELSE Some(path[Len(path)])

\* Regex::is_match on a path and on a file name.
PathMatches(regex, path) == \E i \in 1 .. Len(path) : path[i] = regex
NameMatches(regex, name) == name = regex

\* iter.rs:29-61 once the path is resolved.
RecordFrom(block, entry_id, path) ==
    IF FindBlockType(block, "StandardInformation") = 0
    THEN [status |-> "MissingBlock"]
    ELSE IF FindBlockType(block, "Entry") = 0
    THEN [status |-> "MissingBlock"]
    ELSE [status |-> "Ok", entry_id |-> entry_id, path |-> path,
          filename |-> FileNameOf(path)]

\* iter.rs:120-144: the value of to_skip for a record.
ToSkip(s, r) ==
    LET by_path ==
          IF s.path_exclusion_regex.tag = "some"
          THEN PathMatches(s.path_exclusion_regex.value, r.path)
          ELSE FALSE
    IN  IF s.filename_exclusion_regex.tag = "some"
        THEN r.filename.tag = "some"
             /\ NameMatches(s.filename_exclusion_regex.value, r.filename.value)
        ELSE by_path

\* iter.rs:123-129: where the loop goes after a record that failed.
\* Variant: next() returns at the first record that failed.
OnRecordErrorReturn == "idle"
OnRecordError == "next"

\* Variant: the cursor moves two entries on.
NextCursorSkipping(n) == n + 2
\* iter.rs:118
NextCursor(n) == n + 1

(***************************************************************************)
(* The state machine.                                                      *)
(*   blocks, settings : Parser.blocks (with the file content) and          *)
(*                      Parser.settings, fixed at construction             *)
(*   path_parts       : Parser.path_parts                                  *)
(*   pc               : "idle", "walk" (in the loop of get_file_path),     *)
(*                      "next" (at the head of the loop of Iterator::next),*)
(*                      "aborted" (the process died of a stack overflow)   *)
(*   caller, entry_arg: who called get_file_path, and with which entry_id  *)
(*   current_id, parts: the locals of get_file_path                        *)
(*   visited          : the entry ids whose name the walk has pushed       *)
(*   next_entry_id    : Iterator.next_entry_id                             *)
(*   evaluated        : entry ids handed to Record::from, in order         *)
(*   emitted          : entry ids of the records next() returned, in order *)
(*   errored          : entry ids for which Record::from returned Err      *)
(*   last             : what the last call returned; NoCall while a call   *)
(*                      runs                                               *)
(***************************************************************************)
\* No free-standing function was called.
\* No entry parsed yet, no record buffer, no decode made.
NoEntry == [tag |-> "none"]
NoBuffer == [start |-> 0, len |-> 0, tails |-> <<>>]
NoDecode == [by |-> "none", entry_id |-> 0, status |-> "none", tails |-> <<>>]
\* The index build is not part of the run.
BuildIdle ==
    /\ mft_file = <<>>
    /\ reader = 0
    /\ prev_entry = None
    /\ this_entry = NoEntry
    /\ entry_buffer = NoBuffer
    /\ attr_offset = 0
    /\ block_list = <<>>
    /\ record_n = 0
    /\ build_pc = "idle"
    /\ decoded = NoDecode
    /\ overflow_checks = FALSE

NoCalc ==
    [fn |-> "none", arg |-> <<>>, returned |-> FALSE, result |-> None]

NoCall ==
    [op |-> "none", entry |-> 0, status |-> "none", path |-> <<>>,
     visited |-> <<>>, filename |-> None, best |-> None]

Init ==
    /\ \E d1 \in Irregularities,
          d2 \in {d \in Irregularities : d.what # "kind"} :
          /\ blocks = MftImage(d1, d2)
          /\ settings = SettingsIn(d1, d2)
    /\ size = NumRecords * MFT_RECORD_SIZE
    /\ records = size \div MFT_RECORD_SIZE
    /\ path_parts = [i \in EntryIds |-> Absent]
    /\ pc = "idle"
    /\ caller = "none"
    /\ entry_arg = 0
    /\ current_id = 0
    /\ parts = <<>>
    /\ visited = <<>>
    /\ next_entry_id = 0
    /\ evaluated = <<>>
    /\ emitted = <<>>
    /\ errored = {}
    /\ last = NoCall
    /\ calc = NoCalc
    /\ BuildIdle

\* Entry of get_file_path (lib.rs:108-109).
StartWalk(who, entry_id) ==
    /\ pc' = "walk"
    /\ caller' = who
    /\ entry_arg' = entry_id
    /\ current_id' = entry_id
    /\ parts' = <<>>
    /\ visited' = <<>>
    /\ last' = NoCall

\* The locals of get_file_path go out of scope.
EndWalk ==
    /\ caller' = "none"
    /\ entry_arg' = 0
    /\ current_id' = 0
    /\ parts' = <<>>
    /\ visited' = <<>>

\* A caller of the library calls get_file_path(entry_id).
GetFilePath(entry_id) ==
    /\ pc = "idle"
    /\ StartWalk("api", entry_id)
    /\ UNCHANGED <<blocks, records, size, settings, path_parts,
                   next_entry_id, evaluated, emitted, errored>>
    /\ UNCHANGED <<pure_vars, build_vars>>

\* get_file_path returns to the caller of the library (lib.rs:141, 145-147).
ReturnToCaller(it, seen) ==
    /\ pc' = "idle"
    /\ last' = [op |-> "get_file_path", entry |-> entry_arg,
                status |-> IF it.next = "error" THEN it.error ELSE "Ok",
                path |-> IF it.next = "error" THEN <<>> ELSE PathOf(it.parts),
                visited |-> seen, filename |-> None, best |-> None]
    /\ EndWalk
    /\ UNCHANGED <<next_entry_id, evaluated, emitted, errored>>

\* get_file_path returns to Record::from, and Record::from to the loop of
\* Iterator::next (iter.rs:26-61, 119-149).
ReturnToIterator(it, seen) ==
    LET r == IF it.next = "error" THEN [status |-> it.error]
             ELSE RecordFrom(blocks[entry_arg], entry_arg, PathOf(it.parts))
    IN  /\ EndWalk
        /\ UNCHANGED <<next_entry_id, evaluated>>
        /\ IF r.status # "Ok"
           THEN /\ errored' = errored \cup {entry_arg}
                /\ pc' = OnRecordError
                /\ UNCHANGED <<emitted, last>>
           ELSE IF ToSkip(settings, r)
           THEN /\ pc' = "next"
                /\ UNCHANGED <<emitted, errored, last>>
           ELSE /\ pc' = "idle"
                /\ emitted' = Append(emitted, r.entry_id)
                /\ last' = [op |-> "next", entry |-> r.entry_id,
                            status |-> "Some", path |-> r.path,
                            visited |-> seen, filename |-> r.filename,
                            best |-> None]
                /\ UNCHANGED errored

\* One iteration of the loop of get_file_path.
WalkStep ==
    /\ pc = "walk"
    /\ Len(visited) < MaxWalk
    /\ UNCHANGED <<pure_vars, build_vars>>
    /\ LET it == WalkIteration(blocks, settings, path_parts, current_id, parts)
           seen == IF it.took THEN Append(visited, current_id) ELSE visited
       IN  /\ path_parts' = it.cache
           /\ UNCHANGED <<blocks, records, size, settings>>
           /\ IF it.next = "loop"
              THEN /\ current_id' = it.current_id
                   /\ parts' = it.parts
                   /\ visited' = seen
                   /\ UNCHANGED <<pc, caller, entry_arg, next_entry_id,
                                  evaluated, emitted, errored, last>>
              ELSE IF it.next = "abort"
              THEN /\ pc' = "aborted"
                   /\ UNCHANGED <<caller, entry_arg, current_id, parts, visited,
                                  next_entry_id, evaluated, emitted, errored,
                                  last>>
              ELSE IF caller = "api"
              THEN ReturnToCaller(it, seen)
              ELSE ReturnToIterator(it, seen)

\* A caller of the library calls get_best_path_part(entry_id).
GetBestPathPartCall(entry_id) ==
    /\ pc = "idle"
    /\ LET f == GetBestPathPart(blocks, entry_id) IN
         /\ pc' = IF f.status = "StackOverflow" THEN "aborted" ELSE "idle"
         /\ last' = IF f.status = "StackOverflow" THEN NoCall
                    ELSE [NoCall EXCEPT !.op = "get_best_path_part",
                                        !.entry = entry_id,
                                        !.status = f.status,
                                        !.best = IF f.status = "Ok" THEN Some(f)
                                                 ELSE None]
    /\ UNCHANGED <<blocks, records, size, settings, path_parts, caller,
                   entry_arg, current_id, parts, visited, next_entry_id,
                   evaluated, emitted, errored>>
    /\ UNCHANGED <<pure_vars, build_vars>>

\* fill_path_parts_cache, as a whole.
FillPathPartsCache ==
    /\ pc = "idle"
    /\ LET r == FillFrom(blocks, path_parts, 0) IN
         /\ path_parts' = r.cache
         /\ pc' = IF r.status = "Abort" THEN "aborted" ELSE "idle"
         /\ last' = IF r.status = "Abort" THEN NoCall
                    ELSE [NoCall EXCEPT !.op = "fill_path_parts_cache",
                                        !.status = r.status]
    /\ UNCHANGED <<blocks, records, size, settings, caller, entry_arg,
                   current_id, parts, visited, next_entry_id, evaluated,
                   emitted, errored>>
    /\ UNCHANGED <<pure_vars, build_vars>>

\* Variant: the block is moved out of the index.
BlocksAfterTake(blks, n) == [blks EXCEPT ![n] = <<>>]
\* iter.rs:117: blocks.get(next_entry_id).cloned() hands out a copy of the
\* block; the index stays as it is.
BlocksAfterGet(blks, n) == blks

\* The head of the loop of Iterator::next (iter.rs:117-119): return None
\* past the last block, else take the block and resolve its path.
LoopHead ==
    IF next_entry_id \notin DOMAIN blocks
    THEN /\ pc' = "idle"
         /\ last' = [NoCall EXCEPT !.op = "next", !.status = "None"]
         /\ UNCHANGED <<blocks, records, size, settings, path_parts, caller,
                        entry_arg, current_id, parts, visited, next_entry_id,
                        evaluated, emitted, errored>>
    ELSE /\ blocks' = BlocksAfterGet(blocks, next_entry_id)
         /\ next_entry_id' = NextCursor(next_entry_id)
         /\ evaluated' = Append(evaluated, next_entry_id)
         /\ StartWalk("next", next_entry_id)
         /\ UNCHANGED <<records, size, settings, path_parts, emitted,
                        errored>>

\* A caller of the library calls Iterator::next.
IteratorNext ==
    /\ pc = "idle"
    /\ LoopHead
    /\ UNCHANGED <<pure_vars, build_vars>>

\* Iterator::next goes round its loop after a record it did not return.
NextIteration ==
    /\ pc = "next"
    /\ LoopHead
    /\ UNCHANGED <<pure_vars, build_vars>>

Next ==
    \/ \E entry_id \in EntryIds \cup {DanglingId} : GetFilePath(entry_id)
    \/ \E entry_id \in EntryIds \cup {DanglingId} : GetBestPathPartCall(entry_id)
    \/ WalkStep
    \/ FillPathPartsCache
    \/ IteratorNext
    \/ NextIteration

Spec == Init /\ [][Next]_vars

(***************************************************************************)
(* What the claims speak of.                                               *)
(***************************************************************************)
\* The best FileName of entry e, read from the file with no cache.
BestOf(e) == GetBestPathPart(blocks, e)
HasName(e) == BestOf(e).status = "Ok"
\* The walk stops after taking the name of e: e lies in the root directory,
\* or e is an orphan (its parent is itself or entry 0).
InRoot(e) == HasName(e) /\ BestOf(e).parent = ROOT_ENTRY
IsOrphaned(e) ==
    /\ HasName(e)
    /\ BestOf(e).parent # ROOT_ENTRY
    /\ (BestOf(e).parent = e \/ BestOf(e).parent = 0)

RECURSIVE ParentChain(_, _)
\* The entries e0 = e, e1, ..., each the parent of the one before, up to the
\* first that stops the walk or whose parent has no name to give; at most n.
ParentChain(e, n) ==
    IF n = 0 \/ ~HasName(e) THEN <<>>
    ELSE IF InRoot(e) \/ IsOrphaned(e) THEN <<e>>
    ELSE <<e>> \o ParentChain(BestOf(e).parent, n - 1)

\* The entry the walk would go to after the chain c that starts at e.
AfterChain(e, c) == IF c = <<>> THEN e ELSE BestOf(c[Len(c)]).parent

\* The path prefix/name(ek)/.../name(e0) as its '/'-join spells it.
Components(prefix, c) ==
    [j \in 1 .. (Len(prefix) + Len(c)) |->
        IF j <= Len(prefix) THEN prefix[j]
        ELSE BestOf(c[Len(c) + Len(prefix) + 1 - j]).name]
Spelled(components) ==
    [j \in 1 .. (2 * Len(components) - 1) |->
        IF j % 2 = 1 THEN components[(j + 1) \div 2] ELSE "/"]

NoRepeat(s) == \A i, j \in 1 .. Len(s) : i # j => s[i] # s[j]
Range(s) == {s[i] : i \in 1 .. Len(s)}

\* C1: get_file_path terminates for every block index and entry_id, and one
\* walk never takes the name of the same entry_id twice, whatever cycles the
\* parent references form.
C1_WalkTakesEachEntryOnce ==
    /\ NoRepeat(visited)
    /\ NoRepeat(last.visited)

RECURSIVE RunWalk(_, _, _, _)
\* get_file_path run to its end from a given cache; "NoReturn" when the call
\* does not return within the model's bounds.
RunWalk(cache, current, ps, taken) ==
    IF taken >= MaxWalk THEN [status |-> "NoReturn", path |-> <<>>]
    ELSE LET it == WalkIteration(blocks, settings, cache, current, ps) IN
         IF it.next = "loop"
         THEN RunWalk(it.cache, it.current_id, it.parts,
                      IF it.took THEN taken + 1 ELSE taken)
         ELSE IF it.next = "abort" THEN [status |-> "NoReturn", path |-> <<>>]
         ELSE IF it.next = "error" THEN [status |-> it.error, path |-> <<>>]
         ELSE [status |-> "Ok", path |-> PathOf(it.parts)]
\* What get_file_path(e) returns as the first call on a new parser.
FirstCall(e) == RunWalk([i \in EntryIds |-> Absent], e, <<>>, 0)

\* C2: every call of get_file_path(e) returns what the first call on a new
\* parser returns, whatever calls came before and whatever the cache holds;
\* so any two calls of get_file_path(e) return equal results.
C2_SameResultWhateverTheCache ==
    last.op = "get_file_path" =>
        /\ last.status = FirstCall(last.entry).status
        /\ last.path = FirstCall(last.entry).path
\* C2 witness: get_file_path returned a path of two names or more while the
\* cache, filled by fill_path_parts_cache, held None for some entry.
C2_Witness ==
    /\ last.op = "get_file_path"
    /\ last.status = "Ok"
    /\ Len(last.visited) >= 2
    /\ \E e \in EntryIds : path_parts[e] = None

\* C3: with path_exclusion_regex set, alone or with filename_exclusion_regex,
\* Iterator::next never returns a record whose path matches it.
C3_NoExcludedPathReturned ==
    (/\ last.op = "next"
     /\ last.status = "Some"
     /\ settings.path_exclusion_regex.tag = "some")
    => ~PathMatches(settings.path_exclusion_regex.value, last.path)

\* C4: get_file_path(i) returns Ok for every entry id i of the index,
\* whatever parent references the records hold.
C4_AlwaysOk ==
    (last.op = "get_file_path" /\ last.entry \in EntryIds)
    => last.status = "Ok"

\* C5: the records Iterator::next returns have strictly increasing entry
\* ids, and the entries are evaluated one by one in index order, each once:
\* the entries evaluated so far are 0, 1, ..., next_entry_id - 1, and all of
\* them once next has returned None.
C5_AscendingEachOnce ==
    /\ \A i, j \in 1 .. Len(emitted) : i < j => emitted[i] < emitted[j]
    /\ Len(evaluated) = next_entry_id
    /\ \A i \in 1 .. Len(evaluated) : evaluated[i] = i - 1
    /\ Range(emitted) \subseteq Range(evaluated)
    /\ (last.op = "next" /\ last.status = "None")
          => Range(evaluated) = DOMAIN blocks
\* C5 witness: two records returned, with an entry between or before them
\* that was evaluated and not returned.
C5_Witness ==
    /\ pc = "idle"
    /\ Len(emitted) >= 2
    /\ Len(evaluated) > Len(emitted)

\* C6: an entry k for which Record::from returned an error is not emitted,
\* the loop goes on to entry k + 1 (it is evaluated, or the loop is at its
\* head about to take it), and next returns None only after every block
\* was evaluated.
C6_BadRecordDoesNotStopTheScan ==
    /\ \A k \in errored :
          /\ k \notin Range(emitted)
          /\ (k + 1) \in DOMAIN blocks =>
                \/ (k + 1) \in Range(evaluated)
                \/ pc = "next" /\ next_entry_id = k + 1
          /\ (k + 1) \notin DOMAIN blocks =>
                \/ pc = "next" /\ next_entry_id = k + 1
                \/ last.op # "next"
                \/ last.status = "None"
    /\ (last.op = "next" /\ last.status = "None")
          => Len(evaluated) = Cardinality(DOMAIN blocks)
\* C6 witness: Record::from failed for an entry and next returned the
\* record of the entry after it.
C6_Witness ==
    \E k \in errored :
        /\ last.op = "next"
        /\ last.status = "Some"
        /\ last.entry = k + 1

\* C7: when the entries from e up the parent references are e0, ..., ek
\* and the best FileName of ek has parent 5, get_file_path(e) takes exactly
\* these names and returns prefix/name(ek)/.../name(e0), the prefix being
\* "<drive>:" when drive_char is set and "{Root}" otherwise.
C7_RootResolution ==
    LET c == ParentChain(last.entry, MaxWalk)
        prefix == IF settings.drive_char = Some("C") THEN "C:" ELSE "{Root}"
    IN  (/\ last.op = "get_file_path"
         /\ c # <<>>
         /\ InRoot(c[Len(c)]))
        => /\ last.status = "Ok"
           /\ last.visited = c
           /\ last.path = Spelled(Components(<<prefix>>, c))
\* C7 witness: a path of a drive letter and two names was returned.
C7_Witness ==
    /\ last.op = "get_file_path"
    /\ last.status = "Ok"
    /\ settings.drive_char.tag = "some"
    /\ Len(last.visited) = 2
    /\ InRoot(last.visited[2])

\* C8: when the entries from e up the parent references are e0, ..., ek
\* and the best FileName of ek has parent ek or parent 0 (and not 5),
\* get_file_path(e) takes exactly these names and returns
\* {Orphaned}/name(ek)/.../name(e0).
C8_OrphanResolution ==
    LET c == ParentChain(last.entry, MaxWalk)
    IN  (/\ last.op = "get_file_path"
         /\ c # <<>>
         /\ IsOrphaned(c[Len(c)]))
        => /\ last.status = "Ok"
           /\ last.visited = c
           /\ last.path = Spelled(Components(<<"{Orphaned}">>, c))
\* C8 witness: a walk of two names ended at an entry that is its own parent.
C8_Witness ==
    /\ last.op = "get_file_path"
    /\ last.status = "Ok"
    /\ Len(last.visited) = 2
    /\ BestOf(last.visited[2]).parent = last.visited[2]
    /\ last.path = <<"{Orphaned}", "/", BestOf(last.visited[2]).name, "/",
                     BestOf(last.visited[1]).name>>

\* The FileName pointers of a record, in attribute order, and the first of
\* them that is not pure DOS.
FileNamesOf(block) == SelectSeq(block, LAMBDA b : b.block_type = "FileName")
HoldsDosAndOther(block) ==
    /\ \E i \in 1 .. Len(block) :
          block[i].block_type = "FileName" /\ block[i].name_space = 2
    /\ \E i \in 1 .. Len(block) :
          block[i].block_type = "FileName" /\ block[i].name_space # 2
FirstOther(block) ==
    LET names == FileNamesOf(block)
        k == CHOOSE i \in 1 .. Len(names) :
                 /\ names[i].name_space # 2
                 /\ \A j \in 1 .. (i - 1) : names[j].name_space = 2
    IN  names[k]
HoldsAttributeList(block) ==
    \E i \in 1 .. Len(block) : block[i].block_type = "AttributeList"
ReturnsFirstOther(block) ==
    /\ last.status = "Ok"
    /\ last.best.value.name = FirstOther(block).name
    /\ last.best.value.parent = FirstOther(block).parent
    /\ last.best.value.name_space = FirstOther(block).name_space

C10_MissingFileNameEndsTheWalk ==
    LET c == ParentChain(last.entry, MaxWalk)
        m == AfterChain(last.entry, c)
    IN  (/\ last.op = "get_file_path"
         /\ Len(c) < MaxWalk
         /\ c # <<>> => ~(InRoot(c[Len(c)]) \/ IsOrphaned(c[Len(c)]))
         /\ BestOf(m).status = "MissingFileNameAttribute")
        => /\ last.status = "Ok"
           /\ last.visited = c
           /\ last.path = Spelled(Components(<<>>, c))
\* C10 witness: a walk took the name of its starting entry and stopped at a
\* parent whose only FileName is the DOS one.
C10_Witness ==
    /\ last.op = "get_file_path"
    /\ last.status = "Ok"
    /\ Len(last.visited) = 1
    /\ last.path = <<BestOf(last.entry).name>>
    /\ BestOf(last.entry).parent \in DOMAIN blocks
    /\ FileNamesOf(blocks[BestOf(last.entry).parent]) # <<>>
    /\ BestOf(BestOf(last.entry).parent).status = "MissingFileNameAttribute"

(***************************************************************************)
(* The free-standing functions: the is_deleted test of Record::from        *)
(* (iter.rs:50), FileReference (raw.rs:24-52) and convert_u64_to_datetime  *)
(* (attributes/mod.rs:15-22).  One call per behaviour: calc holds the      *)
(* function, its arguments and, once it returned, its result.              *)
(*                                                                         *)
(* A u64 does not fit the integers of the model checker, so the bytes of a *)
(* FileReference hold ByteBase values each instead of 256: a u64 is a      *)
(* number below ByteBase^8, its entry the low 6 bytes, its sequence the    *)
(* high 2.  A DateTime is the pair of the whole seconds since              *)
(* 1601-01-01T00:00:00Z and the microseconds within the second.            *)
(***************************************************************************)
\* Values one byte of a u64 takes in the model (256 in the program).
ByteBase == 4
\* Ticks on each side of 0, of one second and of the largest timestamp of
\* the model that convert_u64_to_datetime is called with.
TickSpan == 30
\* raw.rs:31, the bytes of a u64.
U64_BYTES == 8
\* raw.rs:32-34, the index of the first byte of the sequence.
SEQUENCE_BYTE == 6
\* raw.rs:225, the largest value of Header.flags (a u16).
U16_MAX == 65535
\* attributes/mod.rs:19, the 100 ns ticks in a microsecond.
TICKS_PER_MICROSECOND == 10
\* attributes/mod.rs:29, the ticks in a second (0x989680).
TICKS_PER_SECOND == 10000000

RECURSIVE Pow(_, _)
Pow(b, n) == IF n = 0 THEN 1 ELSE b * Pow(b, n - 1)

\* u16::to_le_bytes (iter.rs:50).
U16ToLeBytes(value) == <<value % 256, value \div 256>>
\* iter.rs:50
IsDeleted(flags) ==
    LET bytes == U16ToLeBytes(flags)
    IN  \E i \in 1 .. Len(bytes) : bytes[i] = 2

\* u64::to_le_bytes (raw.rs:31).
ToLeBytes(value) ==
    [i \in 1 .. U64_BYTES |-> (value \div Pow(ByteBase, i - 1)) % ByteBase]
\* LittleEndian::read_u16 and read_u64 (raw.rs:32, 35).
ReadU16(bytes) == bytes[1] + ByteBase * bytes[2]
RECURSIVE ReadU64(_)
ReadU64(bytes) ==
    IF bytes = <<>> THEN 0 ELSE Head(bytes) + ByteBase * ReadU64(Tail(bytes))

\* Variant: the bytes of the sequence are left in the entry.
FileReferenceFromKeepingSequence(value) ==
    LET bytes == ToLeBytes(value)
    IN  [entry |-> ReadU64(bytes),
         sequence |-> ReadU16(<<bytes[SEQUENCE_BYTE + 1], bytes[SEQUENCE_BYTE + 2]>>)]
\* raw.rs:29-38
FileReferenceFrom(value) ==
    LET bytes == ToLeBytes(value)
        sequence == ReadU16(<<bytes[SEQUENCE_BYTE + 1], bytes[SEQUENCE_BYTE + 2]>>)
        cleared == [bytes EXCEPT ![SEQUENCE_BYTE + 1] = 0,
                                 ![SEQUENCE_BYTE + 2] = 0]
    IN  [entry |-> ReadU64(cleared), sequence |-> sequence]
\* raw.rs:47-52 and raw.rs:40-45
FileReferenceEq(a, b) == a.entry = b.entry
FileReferenceEqU64(a, other) == a.entry = other

\* Variant: the ticks are taken for microseconds.
ConvertTicksAsMicroseconds(timestamp) ==
    [secs |-> timestamp \div 1000000, micros |-> timestamp % 1000000]
\* attributes/mod.rs:15-22.  timestamp / 10 is below 2^63, so the cast to
\* i64 keeps it; Duration::microseconds splits it into seconds and the
\* rest, and the sum with the epoch stays far below the last date chrono
\* represents.
ConvertU64ToDatetime(timestamp) ==
    LET microseconds == timestamp \div TICKS_PER_MICROSECOND
    IN  [secs |-> microseconds \div 1000000,
         micros |-> microseconds % 1000000]

\* The arguments of the calls of the model.
U64Samples ==
    {ReadU64(b) : b \in [1 .. U64_BYTES -> {0, 1, ByteBase - 1}]}
EntryModulus == Pow(ByteBase, SEQUENCE_BYTE)
U64Modulus == Pow(ByteBase, U64_BYTES)
\* Values that share their entry with v, or nearly.
Relatives(v) ==
    {v, v % EntryModulus, (v + EntryModulus) % U64Modulus,
     (v + 1) % U64Modulus, 0}
TickSamples ==
    (0 .. TickSpan)
    \cup ((TICKS_PER_SECOND - TickSpan) .. (TICKS_PER_SECOND + TickSpan))
    \cup ((200 * TICKS_PER_SECOND - TickSpan) .. (200 * TICKS_PER_SECOND))

\* The parser is constructed and no call of it runs.
ParserIdle ==
    /\ blocks = MftImage(Regular, Regular)
    /\ settings = DefaultSettings
    /\ size = NumRecords * MFT_RECORD_SIZE
    /\ records = size \div MFT_RECORD_SIZE
    /\ path_parts = [i \in EntryIds |-> Absent]
    /\ pc = "idle"
    /\ caller = "none"
    /\ entry_arg = 0
    /\ current_id = 0
    /\ parts = <<>>
    /\ visited = <<>>
    /\ next_entry_id = 0
    /\ evaluated = <<>>
    /\ emitted = <<>>
    /\ errored = {}
    /\ last = NoCall

\* A call that has not returned.
Call(fn, arg) == [fn |-> fn, arg |-> arg, returned |-> FALSE, result |-> None]

\* One call, of any of the functions with any of the arguments.
PureInit ==
    /\ ParserIdle
    /\ BuildIdle
    /\ \/ \E flags \in 0 .. U16_MAX : calc = Call("is_deleted", <<flags>>)
       \/ \E value \in U64Samples :
             calc = Call("FileReference::from", <<value>>)
       \/ \E value \in U64Samples : \E other \in Relatives(value) :
             calc = Call("FileReference::eq", <<value, other>>)
       \/ \E timestamp \in TickSamples :
             \E d \in {0, 1, TICKS_PER_MICROSECOND, TickSpan} :
                 calc = Call("convert_u64_to_datetime",
                             <<timestamp, timestamp + d>>)

IsDeletedCall ==
    /\ calc.fn = "is_deleted"
    /\ ~calc.returned
    /\ calc' = [calc EXCEPT !.returned = TRUE, !.result = IsDeleted(calc.arg[1])]
    /\ UNCHANGED <<parser_vars, build_vars>>

FileReferenceFromCall ==
    /\ calc.fn = "FileReference::from"
    /\ ~calc.returned
    /\ calc' = [calc EXCEPT !.returned = TRUE, !.result = FileReferenceFrom(calc.arg[1])]
    /\ UNCHANGED <<parser_vars, build_vars>>

\* FileReference::from(value) == FileReference::from(other) and
\* FileReference::from(value) == other.
FileReferenceEqCall ==
    /\ calc.fn = "FileReference::eq"
    /\ ~calc.returned
    /\ calc' = [calc EXCEPT !.returned = TRUE, !.result =
                  [eq |-> FileReferenceEq(FileReferenceFrom(calc.arg[1]),
                                          FileReferenceFrom(calc.arg[2])),
                   eq_u64 |-> FileReferenceEqU64(FileReferenceFrom(calc.arg[1]),
                                                 calc.arg[2])]]
    /\ UNCHANGED <<parser_vars, build_vars>>

\* convert_u64_to_datetime of a timestamp and of a later one.
ConvertU64ToDatetimeCall ==
    /\ calc.fn = "convert_u64_to_datetime"
    /\ ~calc.returned
    /\ calc' = [calc EXCEPT !.returned = TRUE, !.result = <<ConvertU64ToDatetime(calc.arg[1]),
                                         ConvertU64ToDatetime(calc.arg[2])>>]
    /\ UNCHANGED <<parser_vars, build_vars>>

PureNext ==
    \/ IsDeletedCall
    \/ FileReferenceFromCall
    \/ FileReferenceEqCall
    \/ ConvertU64ToDatetimeCall

SpecPure == PureInit /\ [][PureNext]_vars

\* C12: Record.is_deleted is true exactly when bit 0 (the in-use bit) of
\* the header's flags is clear, for every 16-bit flags value.
C12_DeletedIffNotInUse ==
    (calc.fn = "is_deleted" /\ calc.returned)
    => (calc.result <=> calc.arg[1] % 2 = 0)

\* C13: FileReference::from(v) has entry = v mod 2^48 and sequence =
\* v div 2^48 (so entry + sequence * 2^48 = v), and two FileReferences, or
\* a FileReference and a u64, are equal exactly when the entries are,
\* whatever the sequences (2^48 is EntryModulus at the byte width of the
\* model).
C13_FileReferenceSplitsAndComparesEntries ==
    /\ (calc.fn = "FileReference::from" /\ calc.returned) =>
          /\ calc.result.entry = calc.arg[1] % EntryModulus
          /\ calc.result.sequence = calc.arg[1] \div EntryModulus
          /\ calc.result.entry + calc.result.sequence * EntryModulus
                = calc.arg[1]
    /\ (calc.fn = "FileReference::eq" /\ calc.returned) =>
          /\ calc.result.eq <=>
                calc.arg[1] % EntryModulus = calc.arg[2] % EntryModulus
          /\ calc.result.eq_u64 <=>
                calc.arg[1] % EntryModulus = calc.arg[2]
\* C13 witness: two values of different sequences and the same non-zero
\* entry compared equal.
C13_Witness ==
    /\ calc.fn = "FileReference::eq"
    /\ calc.returned
    /\ calc.arg[1] \div EntryModulus # calc.arg[2] \div EntryModulus
    /\ calc.arg[1] % EntryModulus # 0
    /\ calc.result.eq

\* C14: convert_u64_to_datetime(t) is 1601-01-01T00:00:00Z plus
\* floor(t / 10) microseconds: 0 gives the epoch, 10_000_000 gives one
\* second past it, ticks below 10 are dropped, and a later timestamp never
\* gives an earlier date.
C14_FiletimeConversion ==
    (calc.fn = "convert_u64_to_datetime" /\ calc.returned) =>
        LET t == calc.arg[1]
            u == calc.arg[2]
            a == calc.result[1]
            b == calc.result[2]
        IN  /\ a.micros \in 0 .. 999999
            /\ a.secs * 1000000 + a.micros = t \div 10
            /\ t = 0 => a = [secs |-> 0, micros |-> 0]
            /\ t < 10 => a = [secs |-> 0, micros |-> 0]
            /\ t = 10000000 => a = [secs |-> 1, micros |-> 0]
            /\ t <= u =>
                  \/ a.secs < b.secs
                  \/ a.secs = b.secs /\ a.micros <= b.micros
\* C14 witness: the timestamp 10_000_000 was converted, and with it one a
\* tick later that gives the same date.
C14_Witness ==
    /\ calc.fn = "convert_u64_to_datetime"
    /\ calc.arg = <<10000000, 10000001>>
    /\ calc.returned
    /\ calc.result[1] = [secs |-> 1, micros |-> 0]
    /\ calc.result[2] = calc.result[1]

\* C15: the path cache is monotone: once path_parts holds a value for an
\* entry id, no step of get_file_path, fill_path_parts_cache or
\* Iterator::next changes or removes it; an insertion over an existing
\* entry stores the value it already holds.
C15_CacheMonotone ==
    [][\A e \in DOMAIN path_parts :
          path_parts[e] # Absent => path_parts'[e] = path_parts[e]]_vars
\* C15 witness: fill_path_parts_cache returned after Iterator::next had
\* cached and returned a record, so it inserted over existing entries.
C15_Witness ==
    /\ last.op = "fill_path_parts_cache"
    /\ last.status = "Ok"
    /\ Len(emitted) >= 1
    /\ \A e \in DOMAIN path_parts : path_parts[e] # Absent

(***************************************************************************)
(* The index build: Parser::with_settings, get_blocks, Entry::from_reader, *)
(* Attribute::from_buffer and Block::new_with_entry over an MFT file.      *)
(*                                                                         *)
(* The file is a sequence of 512-byte sectors.  A sector is described by   *)
(* what the code reads out of it: the header its first 48 bytes decode to, *)
(* the attribute records that lie from the header's attrs_offset on, the   *)
(* update sequence array at offset_to_fixup and its two last bytes.  The   *)
(* two last bytes and the array entries are tokens: "usn" is the sentinel  *)
(* NTFS writes over the end of a sector on disk, "fix1", "fix2" are the    *)
(* bytes it saved in the array, "zero" is untouched zero fill, "past" is   *)
(* whatever lies behind the array.                                         *)
(***************************************************************************)
\* Records the files of the model hold at most.
MaxSlots == 3
\* Attributes the model lets the loop of Entry::from_reader push on one
\* entry before it stops following it (the loop itself has no bound).
MaxAttributes == 4

\* raw.rs:140, the bytes of a record header.
HEADER_SIZE == 48
\* raw.rs:178, the sector the fixup works on.
SECTOR_SIZE == 512
\* raw.rs:178, the bytes at the end of a sector the fixup replaces.
FIXUP_BYTES == 2
\* block.rs:35, where the pointer of a non-resident attribute points.
NON_RESIDENT_OFFSET == 16
\* raw.rs:328-356, the bytes Attribute::from_buffer reads of a resident
\* attribute record.
RESIDENT_HEAD == 24
\* raw.rs:328-367, the bytes it reads of a non-resident one.
NON_RESIDENT_HEAD == 64
\* raw.rs:328, the bytes of the type code.
TYPE_CODE_SIZE == 4
\* standard_info.rs:23-34, the bytes StandardInformation::from_reader reads.
STANDARD_INFORMATION_SIZE == 72

\* raw.rs:420-424
VALID_CODES ==
    {0, 16, 32, 48, 64, 80, 96, 112, 128, 144, 160, 176, 192, 208, 224, 240,
     256, 4096}
\* raw.rs:419-426
IsValidTypeCode(type_code) == type_code \in VALID_CODES
\* The end marker of the attribute records, 0xFFFFFFFF on disk; the model
\* writes it as 0xFFFF, which like it is no valid code.
END_MARKER == 65535

\* block.rs:125-146
FromAttributeTypeCode(type_code) ==
    CASE type_code = 16 -> "StandardInformation"
      [] type_code = 32 -> "AttributeList"
      [] type_code = 48 -> "FileName"
      [] type_code = 64 -> "ObjectId"
      [] type_code = 80 -> "SecurityDescriptor"
      [] type_code = 96 -> "VolumeName"
      [] type_code = 112 -> "VolumeInformation"
      [] type_code = 128 -> "Data"
      [] type_code = 144 -> "IndexRoot"
      [] type_code = 160 -> "IndexAllocation"
      [] type_code = 176 -> "Bitmap"
      [] type_code = 192 -> "ReparsePoint"
      [] type_code = 208 -> "EaInformation"
      [] type_code = 224 -> "Ea"
      [] type_code = 240 -> "PropertySet"
      [] type_code = 256 -> "LoggedUtilityStream"
      [] type_code = END_MARKER -> "End"
      [] OTHER -> "UnknownAttribute"

\* raw.rs:215-230, a header whose fields are zero but total_entry_size.
ZeroHeader(total_entry_size) ==
    [sig |-> <<0, 0, 0, 0>>, offset_to_fixup |-> 0, num_of_fixup |-> 0,
     log_sequence_number |-> 0, sequence_number |-> 0, link_count |-> 0,
     attrs_offset |-> 0, flags |-> 0, used_entry_size |-> 0,
     total_entry_size |-> total_entry_size,
     base_mft_record |-> FileReferenceFrom(0), next_attr_id |-> 0]
\* raw.rs:215-230, the header of a record in use ("FILE").
FileHeader(total_entry_size, attrs_offset, num_of_fixup) ==
    [sig |-> <<70, 73, 76, 69>>, offset_to_fixup |-> HEADER_SIZE,
     num_of_fixup |-> num_of_fixup,
     log_sequence_number |-> 1, sequence_number |-> 1, link_count |-> 1,
     attrs_offset |-> attrs_offset, flags |-> 1, used_entry_size |-> 416,
     total_entry_size |-> total_entry_size,
     base_mft_record |-> FileReferenceFrom(0), next_attr_id |-> 3]
\* raw.rs:233-246
IsZeroed(h) ==
    /\ h.sig = <<0, 0, 0, 0>>
    /\ h.offset_to_fixup = 0
    /\ h.num_of_fixup = 0
    /\ h.log_sequence_number = 0
    /\ h.sequence_number = 0
    /\ h.link_count = 0
    /\ h.attrs_offset = 0
    /\ h.flags = 0
    /\ h.used_entry_size = 0
    /\ FileReferenceEqU64(h.base_mft_record, 0)
    /\ h.next_attr_id = 0

\* raw.rs:303-308, the image of a resident attribute record.
Resident(type_code, record_len, data_size, data_offset, instance) ==
    [type_code |-> type_code, record_len |-> record_len, form_code |-> 0,
     instance |-> instance, name |-> None,
     data |-> [resident |-> TRUE, data_size |-> data_size,
               data_offset |-> data_offset]]
\* raw.rs:309-319, the image of a non-resident attribute record.
NonResident(type_code, record_len, data_size, instance) ==
    [type_code |-> type_code, record_len |-> record_len, form_code |-> 1,
     instance |-> instance, name |-> None,
     data |-> [resident |-> FALSE, data_size |-> data_size, data_offset |-> 0]]
\* What Attribute::from_buffer reads where the record holds zero bytes:
\* type code 0x0, record_len 0, form code 0.
ZeroBytes == Resident(0, 0, 0, 0, 0)
\* The end marker; nothing behind its type code is read.
EndImage == Resident(END_MARKER, 0, 0, 0, 0)

\* block.rs:134-135
DATA_TYPE_CODE == 128
INDEX_ROOT_TYPE_CODE == 144
\* block.rs:64
ZONE_IDENTIFIER == "Zone.Identifier"
\* raw.rs:390-403: the image with a name of name_len characters at
\* name_offset.
Named(image, name) == [image EXCEPT !.name = Some(name)]

StandardInformationImage == Resident(16, 96, STANDARD_INFORMATION_SIZE, RESIDENT_HEAD, 0)
FileNameImage == Resident(48, 104, 74, RESIDENT_HEAD, 1)
DataImage == NonResident(128, 72, 4096, 2)

\* A sector: header view, attribute records, update sequence array, tail.
Sector(head, attrs, usa, tail) ==
    [head |-> head, attrs |-> attrs, usa |-> usa, tail |-> tail]
ZeroSector(total_entry_size) ==
    Sector(ZeroHeader(total_entry_size), <<>>, <<>>, "zero")
\* The first sector of a record in use of two sectors.
FileSector(head, attrs) == Sector(head, attrs, <<"usn", "fix1", "fix2">>, "usn")
\* The second sector of a record in use whose attributes end before it.
TailSector == Sector(ZeroHeader(0), <<>>, <<>>, "usn")

RegularAttrs == <<StandardInformationImage, FileNameImage, DataImage, EndImage>>
\* Where the attribute records of the record images start.
ATTRS_OFFSET == 56
\* attrs_offset of the record image whose StandardInformation content lies
\* over the end of the first sector (bytes 472 .. 543 of the record).
STRADDLE_OFFSET == 448

\* The record images a file of the model is put together from, each the
\* two sectors of one 1024-byte slot of the file.
SlotKinds ==
    {"regular", "zeroed", "zeroed_512", "zeroed_1024", "zeroed_2048", "half",
     "oversized", "far_data", "zero_len", "padding", "long", "straddle",
     "zone", "zone_stream", "tiny", "short", "fixup_far", "fixup_wrap"}
SlotImage(kind) ==
    CASE kind = "regular" ->
           <<FileSector(FileHeader(1024, ATTRS_OFFSET, 3), RegularAttrs),
             TailSector>>
      [] kind = "zeroed" -> <<ZeroSector(0), ZeroSector(0)>>
      [] kind = "zeroed_512" -> <<ZeroSector(512), ZeroSector(0)>>
      [] kind = "zeroed_1024" -> <<ZeroSector(1024), ZeroSector(0)>>
      [] kind = "zeroed_2048" -> <<ZeroSector(2048), ZeroSector(0)>>
      \* total_entry_size is one sector
      [] kind = "half" ->
           <<FileSector(FileHeader(512, ATTRS_OFFSET, 2), RegularAttrs),
             ZeroSector(0)>>
      \* total_entry_size is two records
      [] kind = "oversized" ->
           <<FileSector(FileHeader(2048, ATTRS_OFFSET, 5), RegularAttrs),
             TailSector>>
      \* a resident attribute whose data_offset points behind the record
      [] kind = "far_data" ->
           <<FileSector(FileHeader(1024, ATTRS_OFFSET, 3),
                        <<StandardInformationImage,
                          Resident(48, 104, 74, 2000, 1), DataImage,
                          EndImage>>),
             TailSector>>
      \* an attribute record of length zero
      [] kind = "zero_len" ->
           <<FileSector(FileHeader(1024, ATTRS_OFFSET, 3),
                        <<StandardInformationImage,
                          Resident(48, 0, 74, RESIDENT_HEAD, 1), EndImage>>),
             TailSector>>
      \* zero fill instead of the end marker
      [] kind = "padding" ->
           <<FileSector(FileHeader(1024, ATTRS_OFFSET, 3),
                        <<StandardInformationImage, FileNameImage>>),
             TailSector>>
      \* an attribute record longer than the record
      [] kind = "long" ->
           <<FileSector(FileHeader(1024, ATTRS_OFFSET, 3),
                        <<StandardInformationImage,
                          Resident(48, 2000, 74, RESIDENT_HEAD, 1)>>),
             TailSector>>
      \* named attributes, two of them Data attributes
      [] kind = "zone" ->
           <<FileSector(FileHeader(1024, ATTRS_OFFSET, 3),
                        <<Named(Resident(DATA_TYPE_CODE, 80, 26, 56, 0),
                                ZONE_IDENTIFIER),
                          Named(Resident(INDEX_ROOT_TYPE_CODE, 80, 26, 56, 1),
                                ZONE_IDENTIFIER),
                          Named(NonResident(DATA_TYPE_CODE, 96, 4096, 2),
                                "other"),
                          EndImage>>),
             TailSector>>
      \* a non-resident Data attribute of that name
      [] kind = "zone_stream" ->
           <<FileSector(FileHeader(1024, ATTRS_OFFSET, 3),
                        <<StandardInformationImage,
                          Named(NonResident(DATA_TYPE_CODE, 112, 4096, 1),
                                ZONE_IDENTIFIER),
                          EndImage>>),
             TailSector>>
      \* total_entry_size is less than the header
      [] kind = "tiny" ->
           <<FileSector(FileHeader(16, ATTRS_OFFSET, 3), RegularAttrs),
             TailSector>>
      \* total_entry_size ends on the two last bytes of the first sector
      [] kind = "short" ->
           <<FileSector(FileHeader(510, ATTRS_OFFSET, 2), RegularAttrs),
             ZeroSector(0)>>
      \* an update sequence array that runs over the end of the record
      [] kind = "fixup_far" ->
           <<FileSector([FileHeader(1024, ATTRS_OFFSET, 20)
                           EXCEPT !.offset_to_fixup = 1000], RegularAttrs),
             TailSector>>
      \* a num_of_fixup whose double leaves 16 bits
      [] kind = "fixup_wrap" ->
           <<FileSector(FileHeader(1024, ATTRS_OFFSET, 32771), RegularAttrs),
             TailSector>>
      \* attributes that start late in the first sector; the second sector
      \* starts with attribute bytes, which read as a header are not zeroed
      [] kind = "straddle" ->
           <<FileSector(FileHeader(1024, STRADDLE_OFFSET, 3),
                        <<StandardInformationImage, FileNameImage, EndImage>>),
             Sector(FileHeader(1024, ATTRS_OFFSET, 0), <<EndImage>>, <<>>,
                    "usn")>>

RECURSIVE Concat(_)
Concat(slots) ==
    IF slots = <<>> THEN <<>> ELSE Head(slots) \o Concat(Tail(slots))
\* The files of the model: two to MaxSlots records, each of any kind, with
\* or without a trailing sector (a partial record).
SlotSeqs ==
    UNION {[1 .. n -> SlotKinds] : n \in 2 .. MaxSlots}
Files ==
    {Concat([i \in 1 .. Len(ks) |-> SlotImage(ks[i])]) \o trailing :
        ks \in SlotSeqs, trailing \in {<<>>, <<ZeroSector(0)>>}}

FileSize(f) == Len(f) * SECTOR_SIZE
\* The sector that starts at byte pos of the file.
SectorAt(f, pos) == f[(pos \div SECTOR_SIZE) + 1]
Min(a, b) == IF a < b THEN a ELSE b
\* reader.take(n).read_to_end: the bytes read at pos, fewer at the end of
\* the file.
Taken(f, pos, n) == IF pos >= FileSize(f) THEN 0 ELSE Min(n, FileSize(f) - pos)

\* An error of the crate (error.rs), by kind.
Err(kind) == [tag |-> "err", kind |-> kind]
IsErr(r) == r.tag = "err"

\* raw.rs:247-282 on the bytes read at pos: fewer than 48 bytes fail in
\* read_exact or one of the read_value!.
HeaderFromBuffer(f, pos, len) ==
    IF len < HEADER_SIZE THEN Err("ValueRead") ELSE Some(SectorAt(f, pos).head)

\* raw.rs:173-174 (and 103-104): the end of the fix_up slice, computed in
\* 16 bits; FixUpOverflows says whether the sum leaves the 16 bits (a panic
\* with overflow checks, a wrapped value without).
FixUpOverflows(h) == h.offset_to_fixup + h.num_of_fixup * 2 + 2 > U16_MAX
FixUpEnd(h) == (h.offset_to_fixup + h.num_of_fixup * 2 + 2) % (U16_MAX + 1)
\* fix_up.len()
FixUpLen(h) == FixUpEnd(h) - h.offset_to_fixup
\* raw.rs:176-185 (and 106-115): the loop runs i over
\* 1 .. fix_up.len() / 2 - 1 and stops at the first i whose replace_offset
\* is greater than the length of the buffer.
FixupRounds(h, len) ==
    {i \in 1 .. (FixUpLen(h) \div 2 - 1) :
        ~(i * SECTOR_SIZE - FIXUP_BYTES > len)}
\* fix_up[2 * i], fix_up[2 * i + 1]: word i of the slice taken at
\* offset_to_fixup, which is longer than the array by one word.
FixupWord(usa, i) == IF i + 1 <= Len(usa) THEN usa[i + 1] ELSE "past"
\* The record buffer after the fixup: where it starts in the file, its
\* length, and the two last bytes of each of its sectors.
FixedBuffer(f, pos, h, len) ==
    [start |-> pos, len |-> len,
     tails |-> [i \in 1 .. (len \div SECTOR_SIZE) |->
                  IF i \in FixupRounds(h, len)
                  THEN FixupWord(SectorAt(f, pos).usa, i)
                  ELSE SectorAt(f, pos + (i - 1) * SECTOR_SIZE).tail]]
\* The buffer of a zeroed record in get_entry_bytes (raw.rs:77-90): no fixup.
RawBuffer(f, pos, len) ==
    [start |-> pos, len |-> len,
     tails |-> [i \in 1 .. (len \div SECTOR_SIZE) |->
                  SectorAt(f, pos + (i - 1) * SECTOR_SIZE).tail]]

\* The thread panics (an arithmetic overflow with overflow checks, a slice
\* range or an index outside the buffer); buf is the buffer as it was read.
Panic(kind, buf) == [tag |-> "panic", kind |-> kind, buffer |-> buf]
\* raw.rs:162 (and 93): the count given to take, total_entry_size - 48 in
\* 64 bits.  Below 48 the difference wraps to a count larger than any file,
\* written here as the size of the file.
RestOfRecord(f, h) ==
    IF h.total_entry_size < HEADER_SIZE THEN FileSize(f)
    ELSE h.total_entry_size - HEADER_SIZE
\* raw.rs:160-185 (and 91-115): the rest of a record whose header h was
\* read at pos (got bytes of it) is read and the fixup applied.
ReadRecord(f, pos, h, got, checks) ==
    LET len == got + Taken(f, pos + got, RestOfRecord(f, h))
        unfixed == [start |-> pos, len |-> len, tails |-> <<>>]
    IN  IF checks /\ h.total_entry_size < HEADER_SIZE
        THEN Panic("overflow", [unfixed EXCEPT !.len = got])
        ELSE IF checks /\ FixUpOverflows(h) THEN Panic("overflow", unfixed)
        ELSE IF h.offset_to_fixup > FixUpEnd(h) \/ FixUpEnd(h) > len
        THEN Panic("slice", unfixed)
        ELSE IF \E i \in FixupRounds(h, len) : i * SECTOR_SIZE - 1 >= len
        THEN Panic("index", unfixed)
        ELSE Some(FixedBuffer(f, pos, h, len))

\* Where attribute record i of a sector's view starts in the buffer.
RECURSIVE StartOf(_, _)
StartOf(sector, i) ==
    IF i = 1 THEN sector.head.attrs_offset
    ELSE StartOf(sector, i - 1) + sector.attrs[i - 1].record_len
\* The attribute record the bytes at off decode to: the first record of the
\* view that starts there, zero bytes behind the last of them.
ImageAt(sector, off) ==
    LET at == {i \in 1 .. Len(sector.attrs) : StartOf(sector, i) = off}
    IN  IF at = {} THEN ZeroBytes
        ELSE sector.attrs[CHOOSE i \in at : \A j \in at : i <= j]
\* raw.rs:323-417
AttributeFromBuffer(f, buf, off) ==
    LET image == ImageAt(SectorAt(f, buf.start), off)
        head == IF image.form_code = 0 THEN RESIDENT_HEAD
                ELSE NON_RESIDENT_HEAD
    IN  IF off + TYPE_CODE_SIZE > buf.len THEN Err("ValueRead")
        ELSE IF ~IsValidTypeCode(image.type_code) THEN None
        ELSE IF off + head > buf.len THEN Err("ValueRead")
        ELSE Some([offset |-> off, type_code |-> image.type_code,
                   record_len |-> image.record_len,
                   form_code |-> image.form_code, name |-> image.name,
                   instance |-> image.instance, data |-> image.data])

\* raw.rs:124-136
FileOffset(seed) ==
    IF seed.tag = "none" THEN 0
    ELSE seed.value.offset
           + (IF seed.value.header.total_entry_size = 0 THEN MFT_RECORD_SIZE
              ELSE seed.value.header.total_entry_size)
\* raw.rs:132, 135
EntryN(seed) == IF seed.tag = "none" THEN 0 ELSE seed.value.entry_n + 1

\* block.rs:16-22
EntrySectionPointer(e) ==
    [block_type |-> "Entry", is_resident |-> TRUE, attribute_id |-> None,
     offset |-> e.offset, size |-> e.header.total_entry_size]
\* Variant: the offset of the attribute record in the entry is left out.
DataOffsetFromRecordStart(e, attribute) ==
    e.offset
      + (IF attribute.data.resident THEN attribute.data.data_offset
         ELSE NON_RESIDENT_OFFSET)
\* block.rs:28-36
DataOffset(e, attribute) ==
    e.offset + attribute.offset
      + (IF attribute.data.resident THEN attribute.data.data_offset
         ELSE NON_RESIDENT_OFFSET)
\* Variant: the name alone decides, whatever the type of the attribute.
AttributePointersTaggingAnyType(e, attribute) ==
    LET pointer == [block_type |-> FromAttributeTypeCode(attribute.type_code),
                    is_resident |-> attribute.data.resident,
                    attribute_id |-> Some(attribute.instance),
                    offset |-> DataOffset(e, attribute),
                    size |-> attribute.data.data_size]
    IN  IF attribute.name = Some(ZONE_IDENTIFIER)
        THEN <<pointer, [pointer EXCEPT !.block_type = "ZoneIdentifier",
                                        !.attribute_id = None]>>
        ELSE <<pointer>>
\* block.rs:54-78, the pointers one attribute adds.
AttributePointers(e, attribute) ==
    LET pointer == [block_type |-> FromAttributeTypeCode(attribute.type_code),
                    is_resident |-> attribute.data.resident,
                    attribute_id |-> Some(attribute.instance),
                    offset |-> DataOffset(e, attribute),
                    size |-> attribute.data.data_size]
    IN  IF /\ pointer.block_type = "Data"
           /\ attribute.name = Some(ZONE_IDENTIFIER)
        THEN <<pointer, [pointer EXCEPT !.block_type = "ZoneIdentifier",
                                        !.attribute_id = None]>>
        ELSE <<pointer>>
RECURSIVE PointersFrom(_, _)
PointersFrom(e, i) ==
    IF i > Len(e.attributes) THEN <<>>
    ELSE AttributePointers(e, e.attributes[i]) \o PointersFrom(e, i + 1)
\* block.rs:10-85
NewWithEntry(e, rn) ==
    [blocks |-> <<EntrySectionPointer(e)>> \o PointersFrom(e, 1),
     entry_id |-> rn]

\* Variant: a partial record at the end counts.
RecordsRoundedUp(n) == (n + MFT_RECORD_SIZE - 1) \div MFT_RECORD_SIZE
\* lib.rs:59
Records(n) == n \div MFT_RECORD_SIZE

\* raw.rs:65-118
GetEntryBytes(f, pos, checks) ==
    LET got == Taken(f, pos, HEADER_SIZE)
        header == HeaderFromBuffer(f, pos, got)
    IN  IF IsErr(header) THEN header
        ELSE IF IsZeroed(header.value)
        THEN Some(RawBuffer(f, pos,
                  got + Taken(f, pos + got, MFT_RECORD_SIZE - HEADER_SIZE)))
        ELSE ReadRecord(f, pos, header.value, got, checks)

\* Whether the bytes a .. a + n - 1 lie over the two last bytes of the k-th
\* sector counted from the origin of a.
OverTail(k, a, n) ==
    /\ a < k * SECTOR_SIZE
    /\ a + n > k * SECTOR_SIZE - FIXUP_BYTES
\* The sector tails a read of n bytes at byte a of the file takes in.
FileTails(f, a, n) ==
    {f[k].tail : k \in {j \in 1 .. Len(f) : OverTail(j, a, n)}}
\* The sector tails a read of n bytes at byte a of a record buffer takes in.
BufferTails(buf, a, n) ==
    {buf.tails[k] : k \in {j \in 1 .. Len(buf.tails) : OverTail(j, a, n)}}

\* iter.rs:29-33, 43-47, lib.rs:158-162: the first pointer of a type.
PointersOfType(block, types) ==
    SelectSeq(block.blocks, LAMBDA p : p.block_type \in types)

Decoded(by, entry_id, status, tails) ==
    [by |-> by, entry_id |-> entry_id, status |-> status, tails |-> tails]
\* iter.rs:29-49: StandardInformation and the header are read from
\* parser.reader at the pointer offsets.
RecordFromReads(f, block) ==
    LET standard_info == PointersOfType(block, {"StandardInformation"})
        entry_block == PointersOfType(block, {"Entry"})
    IN  IF standard_info = <<>>
        THEN Decoded("Record::from", block.entry_id, "MissingBlock", {})
        ELSE IF standard_info[1].offset + STANDARD_INFORMATION_SIZE
                  > FileSize(f)
        THEN Decoded("Record::from", block.entry_id, "ValueRead", {})
        ELSE IF entry_block = <<>>
        THEN Decoded("Record::from", block.entry_id, "MissingBlock", {})
        ELSE IF entry_block[1].offset + HEADER_SIZE > FileSize(f)
        THEN Decoded("Record::from", block.entry_id, "ValueRead", {})
        ELSE Decoded("Record::from", block.entry_id, "Ok",
                     FileTails(f, standard_info[1].offset,
                               STANDARD_INFORMATION_SIZE)
                       \cup FileTails(f, entry_block[1].offset, HEADER_SIZE))
\* lib.rs:158-199: the record is read with get_entry_bytes and the first
\* FileName or AttributeList pointer is decoded from the buffer, FileName
\* (file_name.rs:31-53) and AttributeList (lib.rs:193) over the size of
\* their content.
GetBestPathPartReads(f, block, checks) ==
    LET entry_block == PointersOfType(block, {"Entry"})
        attribute_blocks == PointersOfType(block, {"FileName", "AttributeList"})
        entry_bytes == GetEntryBytes(f, entry_block[1].offset, checks)
        at == attribute_blocks[1].offset - entry_block[1].offset
    IN  IF entry_block = <<>>
        THEN Decoded("get_best_path_part", block.entry_id, "MissingBlock", {})
        ELSE IF IsErr(entry_bytes)
        THEN Decoded("get_best_path_part", block.entry_id, "ValueRead", {})
        ELSE IF entry_bytes.tag = "panic"
        THEN Decoded("get_best_path_part", block.entry_id, "Panic", {})
        ELSE IF attribute_blocks = <<>>
        THEN Decoded("get_best_path_part", block.entry_id,
                     "MissingFileNameAttribute", {})
        ELSE IF at + attribute_blocks[1].size > entry_bytes.value.len
        THEN Decoded("get_best_path_part", block.entry_id, "ValueRead", {})
        ELSE Decoded("get_best_path_part", block.entry_id, "Ok",
                     BufferTails(entry_bytes.value, at,
                                 attribute_blocks[1].size))

(***************************************************************************)
(* The steps of the index build and of the reads of a record after it.     *)
(***************************************************************************)
\* lib.rs:54-61, 76-78: the file is opened, records is computed and the
\* loop of get_blocks starts.
BuildInit ==
    /\ ParserIdle
    /\ calc = NoCalc
    /\ mft_file \in Files
    /\ reader = 0
    /\ prev_entry = None
    /\ this_entry = NoEntry
    /\ entry_buffer = NoBuffer
    /\ attr_offset = 0
    /\ block_list = <<>>
    /\ record_n = 0
    /\ build_pc = "get_blocks"
    /\ decoded = NoDecode
    /\ overflow_checks \in BOOLEAN

\* raw.rs:120-191: Entry::from_reader up to the attribute loop.
EntryFromReader ==
    /\ build_pc = "get_blocks"
    /\ record_n < Records(FileSize(mft_file))
    /\ LET file_offset == FileOffset(prev_entry)
           entry_n == EntryN(prev_entry)
           got == Taken(mft_file, reader, HEADER_SIZE)
           header == HeaderFromBuffer(mft_file, reader, got)
           read == ReadRecord(mft_file, reader, header.value, got,
                              overflow_checks)
           parsed == [offset |-> file_offset, entry_n |-> entry_n,
                      header |-> header.value, attributes |-> <<>>]
       IN  IF IsErr(header)
           THEN /\ build_pc' = "failed"
                /\ UNCHANGED <<reader, this_entry, entry_buffer, attr_offset>>
           ELSE IF IsZeroed(header.value)
           THEN /\ reader' = file_offset + MFT_RECORD_SIZE
                /\ this_entry' = parsed
                /\ build_pc' = "parsed"
                /\ UNCHANGED <<entry_buffer, attr_offset>>
           ELSE IF read.tag = "panic"
           THEN /\ reader' = reader + read.buffer.len
                /\ entry_buffer' = read.buffer
                /\ this_entry' = parsed
                /\ build_pc' = "panicked"
                /\ UNCHANGED attr_offset
           ELSE /\ reader' = reader + read.value.len
                /\ entry_buffer' = read.value
                /\ this_entry' = parsed
                /\ attr_offset' = header.value.attrs_offset
                /\ build_pc' = "attributes"
    /\ UNCHANGED <<mft_file, prev_entry, block_list, record_n, decoded,
                   overflow_checks>>
    /\ UNCHANGED <<parser_vars, pure_vars>>

\* raw.rs:193-200: one turn of the attribute loop.
AttributeLoop ==
    /\ build_pc = "attributes"
    /\ Len(this_entry.attributes) < MaxAttributes
    /\ LET attribute == AttributeFromBuffer(mft_file, entry_buffer, attr_offset)
       IN  IF IsErr(attribute)
           THEN /\ build_pc' = "failed"
                /\ UNCHANGED <<this_entry, attr_offset>>
           ELSE IF attribute.tag = "none"
           THEN /\ build_pc' = "parsed"
                /\ UNCHANGED <<this_entry, attr_offset>>
           ELSE IF ~IsValidTypeCode(attribute.value.type_code)
           THEN /\ build_pc' = "parsed"
                /\ UNCHANGED <<this_entry, attr_offset>>
           ELSE /\ attr_offset' = attr_offset + attribute.value.record_len
                /\ this_entry' =
                     [this_entry EXCEPT
                        !.attributes = Append(@, attribute.value)]
                /\ UNCHANGED build_pc
    /\ UNCHANGED <<mft_file, reader, prev_entry, entry_buffer, block_list,
                   record_n, decoded, overflow_checks>>
    /\ UNCHANGED <<parser_vars, pure_vars>>

\* lib.rs:78-84: the block of the entry is pushed and the entry becomes the
\* seed of the next one.
GetBlocksPush ==
    /\ build_pc = "parsed"
    /\ block_list' = Append(block_list, NewWithEntry(this_entry, record_n))
    /\ prev_entry' = Some(this_entry)
    /\ record_n' = record_n + 1
    /\ build_pc' = IF record_n + 1 < Records(FileSize(mft_file))
                   THEN "get_blocks" ELSE "built"
    /\ UNCHANGED <<mft_file, reader, this_entry, entry_buffer, attr_offset,
                   decoded, overflow_checks>>
    /\ UNCHANGED <<parser_vars, pure_vars>>

\* iter.rs:29-49 for one block of the index.
RecordFromDecode ==
    /\ build_pc = "built"
    /\ \E i \in 1 .. Len(block_list) :
          decoded' = RecordFromReads(mft_file, block_list[i])
    /\ UNCHANGED <<mft_file, reader, prev_entry, this_entry, entry_buffer,
                   attr_offset, block_list, record_n, build_pc,
                   overflow_checks>>
    /\ UNCHANGED <<parser_vars, pure_vars>>

\* lib.rs:158-199 for one block of the index.
GetBestPathPartDecode ==
    /\ build_pc = "built"
    /\ \E i \in 1 .. Len(block_list) :
          decoded' = GetBestPathPartReads(mft_file, block_list[i],
                                          overflow_checks)
    /\ UNCHANGED <<mft_file, reader, prev_entry, this_entry, entry_buffer,
                   attr_offset, block_list, record_n, build_pc,
                   overflow_checks>>
    /\ UNCHANGED <<parser_vars, pure_vars>>

BuildNext ==
    \/ EntryFromReader
    \/ AttributeLoop
    \/ GetBlocksPush
    \/ RecordFromDecode
    \/ GetBestPathPartDecode

SpecBuild == BuildInit /\ [][BuildNext]_vars

(***************************************************************************)
(* Claims about the index build.                                           *)
(***************************************************************************)
\* C11: after a successful construction the block index is dense and
\* complete: it has exactly floor(file_size / 1024) blocks (a trailing
\* partial record is ignored) and the block at position i has entry_id i.
C11_IndexDenseAndComplete ==
    build_pc = "built" =>
        /\ Len(block_list) = FileSize(mft_file) \div 1024
        /\ \A i \in 1 .. Len(block_list) : block_list[i].entry_id = i - 1
\* C11 witness: a file with a trailing partial record was indexed, a
\* zeroed record and a record with attributes among its records.
C11_Witness ==
    /\ build_pc = "built"
    /\ FileSize(mft_file) % 1024 # 0
    /\ Len(block_list) = MaxSlots
    /\ \E i \in 1 .. Len(block_list) : Len(block_list[i].blocks) = 1
    /\ \E i \in 1 .. Len(block_list) : Len(block_list[i].blocks) > 1

\* C16: when Entry::from_reader reads a zeroed header at offset o, whatever
\* its total_entry_size, it returns an entry without attributes, leaves the
\* reader at o + 1024, and the entry parsed next with it as seed has the
\* recorded offset o + 1024.
C16_ZeroedRecordAdvancesOneRecord ==
    /\ (build_pc = "parsed" /\ IsZeroed(this_entry.header)) =>
          /\ this_entry.attributes = <<>>
          /\ reader = this_entry.offset + 1024
    /\ (/\ build_pc \in {"parsed", "attributes"}
        /\ prev_entry.tag = "some"
        /\ IsZeroed(prev_entry.value.header)) =>
          this_entry.offset = prev_entry.value.offset + 1024

\* Whether a record of the file, read at any sector, shows a
\* total_entry_size above 1024.
HasOversized(f) == \E k \in 1 .. Len(f) : f[k].head.total_entry_size > 1024
\* C17: for every record R parsed during the index build, R.offset is a
\* multiple of 1024 and R.entry_n = R.offset / 1024, provided no record has
\* a total_entry_size above 1024.
C17_OffsetsOnRecordBoundaries ==
    (/\ ~HasOversized(mft_file)
     /\ build_pc \in {"parsed", "attributes"}) =>
        /\ this_entry.offset % 1024 = 0
        /\ this_entry.entry_n = this_entry.offset \div 1024

\* C18: every decode of a record after the index build reads fixed-up
\* bytes: what get_best_path_part and Record::from decode over the end of a
\* sector comes from the fixup array, never from the sentinel on disk.
C18_DecodesReadFixedUpBytes ==
    decoded.status = "Ok" => "usn" \notin decoded.tails

\* C19: every section pointer a block of the index holds for an attribute
\* has its offset inside the window of the record,
\* [R.offset, R.offset + total_entry_size), for resident and non-resident
\* attributes and whatever the data_offset field holds.
C19_PointersInsideTheRecord ==
    \A i \in 1 .. Len(block_list) :
        LET window == block_list[i].blocks[1]
        IN  \A k \in 2 .. Len(block_list[i].blocks) :
                /\ block_list[i].blocks[k].offset >= window.offset
                /\ block_list[i].blocks[k].offset < window.offset + window.size

\* C20: every attribute Entry::from_reader puts in the attribute list of
\* the record it parses has a record_len other than zero, whatever the
\* record image, type code 0x0 included.
C20_NoAttributeOfLengthZero ==
    this_entry # NoEntry =>
        \A i \in 1 .. Len(this_entry.attributes) :
            this_entry.attributes[i].record_len # 0

\* ---------------------------------------------------------------------------
\* Truncated records, fixup bounds and size arithmetic.

\* The record just read is a FILE record whose buffer holds fewer bytes than
\* its total_entry_size, and Entry::from_reader returned Ok or panicked.
TruncatedRecordRead ==
    /\ build_pc \in {"parsed", "panicked"}
    /\ ~IsZeroed(this_entry.header)
    /\ this_entry.header.total_entry_size >= HEADER_SIZE
    /\ entry_buffer.len < this_entry.header.total_entry_size

\* C21: a read that reaches the end of the data before the expected bytes
\* are there (the header, the total_entry_size - 48 bytes behind it, a field
\* of an attribute) makes Entry::from_reader return an error: a truncated
\* record is never parsed as if it were complete and never makes the thread
\* panic.
C21_TruncatedReadIsAnError == ~TruncatedRecordRead

\* ---------------------------------------------------------------------------
\* The pointers of a block.

\* The block pushed last and the entry it was made from (lib.rs:80-82).
LastBlock == block_list[Len(block_list)]
LastEntry == prev_entry.value
\* The pointers of a block without the ZoneIdentifier tags.
AttributePointersOf(block) ==
    SelectSeq(block.blocks, LAMBDA p : p.block_type # "ZoneIdentifier")

\* C22: a block starts with exactly one Entry pointer (offset = entry.offset,
\* size = total_entry_size), followed by one pointer per parsed attribute in
\* record order, with offset = entry.offset + A.offset + d (d the data_offset
\* of a resident attribute, 16 for a non-resident one), size = data_size,
\* is_resident = the form of A and attribute_id = the instance of A.
C22_BlockMirrorsTheEntry ==
    prev_entry.tag = "some" =>
      LET e == LastEntry
          all == LastBlock.blocks
          plain == AttributePointersOf(LastBlock)
      IN  /\ all[1] = [block_type |-> "Entry", is_resident |-> TRUE,
                       attribute_id |-> None, offset |-> e.offset,
                       size |-> e.header.total_entry_size]
          /\ \A i \in 2 .. Len(all) : all[i].block_type # "Entry"
          /\ Len(plain) = 1 + Len(e.attributes)
          /\ \A i \in 1 .. Len(e.attributes) :
               LET A == e.attributes[i]
                   d == IF A.form_code = 0 THEN A.data.data_offset
                        ELSE NON_RESIDENT_OFFSET
               IN  /\ plain[i + 1].block_type
                        = FromAttributeTypeCode(A.type_code)
                   /\ plain[i + 1].offset = e.offset + A.offset + d
                   /\ plain[i + 1].size = A.data.data_size
                   /\ plain[i + 1].is_resident = (A.form_code = 0)
                   /\ plain[i + 1].attribute_id = Some(A.instance)
\* A block of a record behind the first one with a resident and a
\* non-resident attribute was pushed.
C22_Witness ==
    /\ prev_entry.tag = "some"
    /\ LastEntry.offset > 0
    /\ \E i, j \in 1 .. Len(LastEntry.attributes) :
         /\ LastEntry.attributes[i].form_code = 0
         /\ LastEntry.attributes[j].form_code = 1
    /\ Len(LastBlock.blocks) > 2

\* A Data attribute (0x80) with the name "Zone.Identifier".
IsZoneData(A) ==
    A.type_code = DATA_TYPE_CODE /\ A.name = Some(ZONE_IDENTIFIER)
\* Where the pointer of attribute k of entry e stands in the block when each
\* such Data attribute before it added one more pointer.
PointerPosition(e, k) ==
    1 + k + Cardinality({j \in 1 .. k - 1 : IsZoneData(e.attributes[j])})

C24_IndexImmutable ==
    [][/\ blocks' = blocks
       /\ records' = records
       /\ size' = size
       /\ settings' = settings]_vars
\* Iterator::next returned a record, the cache holds an entry for every
\* block and get_best_path_part was the last call.
C24_Witness ==
    /\ pc = "idle"
    /\ last.op = "get_best_path_part"
    /\ Len(emitted) > 0
    /\ \A e \in EntryIds : path_parts[e] # Absent
    /\ records = Cardinality(DOMAIN blocks)

\* ---------------------------------------------------------------------------
\* The attribute walk.

\* C25: the attribute walk of Entry::from_reader terminates for every record
\* image: each attribute the loop accepts (pushes) moves the cursor strictly
\* forward, so that the loop ends at the first type code outside the valid
\* set or at the end of the buffer.
C25_AcceptedAttributeMovesTheCursor ==
    [][(/\ build_pc = "attributes"
        /\ Len(this_entry'.attributes) > Len(this_entry.attributes))
         => attr_offset' > attr_offset]_vars

\* ---------------------------------------------------------------------------
\* The recursion of get_best_path_part.

\* C26: get_best_path_part terminates for every block index: the recursion
\* across AttributeList indirections never revisits the same (record, target
\* attribute) pair without end, also when an AttributeList item of a record
\* points to an AttributeList attribute that leads back to the record, or to
\* the record itself.  (pc = "aborted": a call of get_best_path_part, made by
\* the caller of the library, by get_file_path or by fill_path_parts_cache,
\* recursed until the stack was exhausted.)
C26_BestPathPartTerminates == pc # "aborted"

\* ---------------------------------------------------------------------------
\* The fixup step and the arithmetic before it.

\* Entry::from_reader read a non-zeroed header and the rest of the record.
RecordRead ==
    /\ build_pc \in {"attributes", "parsed", "panicked"}
    /\ ~IsZeroed(this_entry.header)
\* ... and none of the two computations in front of the fixup step stopped
\* the thread.
FixupReached ==
    /\ RecordRead
    /\ ~(/\ overflow_checks
         /\ \/ this_entry.header.total_entry_size < HEADER_SIZE
            \/ FixUpOverflows(this_entry.header))

\* C27: the fixup step touches only bytes inside the record buffer: for every
\* non-zeroed header the range [offset_to_fixup, offset_to_fixup
\* + 2 * num_of_fixup + 2) of the fixup array lies within the buffer, and
\* every replaced pair of indices i * 512 - 2, i * 512 - 1 is below the
\* length of the buffer, for every total_entry_size.
C27_FixupInsideTheBuffer ==
    FixupReached =>
      LET h == this_entry.header
      IN  /\ h.offset_to_fixup + 2 * h.num_of_fixup + 2 <= entry_buffer.len
          /\ \A i \in FixupRounds(h, entry_buffer.len) :
               i * SECTOR_SIZE - 1 < entry_buffer.len

\* C28: the size arithmetic done while reading a record never wraps: for
\* every non-zeroed header total_entry_size - 48 is computed in 64 bits only
\* with total_entry_size >= 48, and offset_to_fixup + num_of_fixup * 2 + 2,
\* computed in 16 bits, stays below 2^16.
C28_SizeArithmeticNeverWraps ==
    RecordRead =>
      /\ this_entry.header.total_entry_size >= HEADER_SIZE
      /\ ~FixUpOverflows(this_entry.header)

\* ---------------------------------------------------------------------------
\* The cursor of the iterator.

\* The step is a call of Iterator::next by the caller of the library: it
\* returns None at once or takes a block and starts to resolve its path.
NextCalled ==
    /\ pc = "idle"
    /\ \/ pc' = "walk" /\ caller' = "next"
       \/ pc' = "idle" /\ last'.op = "next"
\* Iterator::next returned None.
ReturnedNone == last.op = "next" /\ last.status = "None"

\* C29: the cursor of the iterator is monotone and bounded: next_entry_id
\* never decreases, grows by exactly one per evaluated block and never
\* exceeds blocks.len(); once Iterator::next has returned None, every later
\* call returns None and changes no state.
C29_CursorMonotoneAndBounded ==
    /\ [](/\ next_entry_id = Len(evaluated)
          /\ next_entry_id <= Cardinality(DOMAIN blocks)
          /\ ReturnedNone => next_entry_id = Cardinality(DOMAIN blocks))
    /\ [][/\ next_entry_id' >= next_entry_id
          /\ next_entry_id' - next_entry_id = Len(evaluated') - Len(evaluated)
          /\ next_entry_id' - next_entry_id <= 1
          /\ (NextCalled /\ next_entry_id = Cardinality(DOMAIN blocks))
               => /\ last'.status = "None"
                  /\ UNCHANGED <<blocks, records, size, settings, path_parts,
                                 next_entry_id, evaluated, emitted,
                                 errored>>]_vars
    /\ [](ReturnedNone
            => [](/\ next_entry_id = Cardinality(DOMAIN blocks)
                  /\ ~(last.op = "next" /\ last.status = "Some")))
\* Every block was evaluated, some records were returned and some were not,
\* and the call after the last block returned None.
C29_Witness ==
    /\ ReturnedNone
    /\ pc = "idle"
    /\ Len(evaluated) = Cardinality(DOMAIN blocks)
    /\ Len(emitted) > 0
    /\ Len(emitted) < Len(evaluated)

====
